---- MODULE Spec2Model ----
(***************************************************************************)
(* Model of the audit / compliance service of src/app.py: the three        *)
(* request handlers audit_transaction, generate_report, update_compliance, *)
(* the helper check_compliance, and the two Cosmos containers they share.  *)
(***************************************************************************)
EXTENDS Integers, Sequences, FiniteSets, TLC

\* ------------------------------------------------------------------ bounds
\* Number of uuid4() identifiers handed out (transactions and rules).
MaxIds == 3

\* Concurrent request workers serving POST /audit.
Auditors == {1, 2}

\* ------------------------------------------------------- values and texts
\* A Python float: a finite number (in currency units) or nan.
Fin(n) == [k |-> "fin", n |-> n]
NaN == [k |-> "nan", n |-> 0]

\* JSON values a caller may send as data['amount'].
JNum(n) == [t |-> "num", n |-> n, s |-> ""]
JStr(s) == [t |-> "str", n |-> 0, s |-> s]
JNull == [t |-> "null", n |-> 0, s |-> ""]

\* Numeric literal texts and the number each denotes.
NumTexts == {"500.0", "1500.0"}
NumOfText(s) == IF s = "500.0" THEN 500 ELSE 1500
TextOfNum(n) == IF n = 500 THEN "500.0" ELSE "1500.0"

\* float(x) of line 81: a record [err, v]; err is "" when the call returns.
PyFloat(x) ==
  IF x.t = "num" THEN [err |-> "", v |-> Fin(x.n)]
  ELSE IF x.t = "null" THEN [err |-> "TypeError", v |-> NaN]
  ELSE IF x.s \in NumTexts THEN [err |-> "", v |-> Fin(NumOfText(x.s))]
  ELSE IF x.s = "nan" THEN [err |-> "", v |-> NaN]
  ELSE [err |-> "ValueError", v |-> NaN]

\* str(v) of a float, as format() renders it.
PyStr(v) == IF v.k = "nan" THEN "nan" ELSE TextOfNum(v.n)

\* ------------------------------------------------------------ rule texts
\* A rule_check text is a sequence of tokens.
\*   ph  : the replacement field {transaction[f]}
\*   qph : the same inside quotes, '{transaction[f]}'
\*   lit : a piece of source text (number, identifier, ...)
\*   op  : a comparison operator
\*   str : a quoted string (only produced by format from qph)
Tok(k, s) == [k |-> k, s |-> s]
Ph(f) == Tok("ph", f)
QPh(f) == Tok("qph", f)
Lit(s) == Tok("lit", s)
Op(o) == Tok("op", o)

\* "{transaction[amount]} > 1000"
AmountGt1000 == <<Ph("amount"), Op(">"), Lit("1000")>>
\* "foo > 10"
FooGt10 == <<Lit("foo"), Op(">"), Lit("10")>>
\* "'{transaction[description]}' > 10"
DescGt10 == <<QPh("description"), Op(">"), Lit("10")>>

\* Keys of the transaction dict while check_compliance runs.
TxKeys == {"id", "date", "description", "amount", "is_compliant"}

\* str() of the value of a key of the transaction dict.
FieldText(tx, f) ==
  CASE f = "amount" -> PyStr(tx.amount)
    [] f = "is_compliant" -> IF tx.is_compliant THEN "True" ELSE "False"
    [] f = "id" -> "uuid"
    [] f = "date" -> tx.date
    [] OTHER -> tx.description

\* rule_check.format(transaction=transaction): every replacement field is
\* replaced by the text of the value; a missing key raises KeyError.
FormatTok(tok, tx) ==
  IF tok.k = "ph" THEN Lit(FieldText(tx, tok.s))
  ELSE IF tok.k = "qph" THEN Tok("str", FieldText(tx, tok.s))
  ELSE tok

PyFormat(check, tx) ==
  IF \E i \in 1..Len(check) : check[i].k \in {"ph", "qph"} /\ check[i].s \notin TxKeys
  THEN [err |-> "KeyError", toks |-> <<>>]
  ELSE [err |-> "", toks |-> [i \in 1..Len(check) |-> FormatTok(check[i], tx)]]

\* Value of an operand of the formatted expression: a number, a string, or
\* an error (NameError for an identifier such as foo or nan, SyntaxError for
\* text such as 2024-01-15).
IntTexts == {"10", "1000"}
IntOfText(s) == IF s = "10" THEN 10 ELSE 1000

Operand(tok) ==
  IF tok.k = "str" THEN [err |-> "", ty |-> "str", n |-> 0]
  ELSE IF tok.k # "lit" THEN [err |-> "SyntaxError", ty |-> "", n |-> 0]
  ELSE IF tok.s \in NumTexts THEN [err |-> "", ty |-> "num", n |-> NumOfText(tok.s)]
  ELSE IF tok.s \in IntTexts THEN [err |-> "", ty |-> "num", n |-> IntOfText(tok.s)]
  ELSE IF tok.s = "True" THEN [err |-> "", ty |-> "num", n |-> 1]
  ELSE IF tok.s = "False" THEN [err |-> "", ty |-> "num", n |-> 0]
  ELSE IF tok.s = "2024-01-15" THEN [err |-> "SyntaxError", ty |-> "", n |-> 0]
  ELSE [err |-> "NameError", ty |-> "", n |-> 0]

\* eval(text): "T" / "F" for the truth value of the result, or the name of
\* the exception raised.
PyEval(toks) ==
  IF Len(toks) = 1 /\ toks[1].k # "op" THEN
    LET a == Operand(toks[1]) IN
    IF a.err # "" THEN a.err
    ELSE IF a.ty = "str" \/ a.n # 0 THEN "T" ELSE "F"
  ELSE IF Len(toks) # 3 \/ toks[2].k # "op" \/ toks[1].k = "op" \/ toks[3].k = "op"
    THEN "SyntaxError"
  ELSE
    LET a == Operand(toks[1])
        b == Operand(toks[3])
    IN  IF a.err = "SyntaxError" \/ b.err = "SyntaxError" THEN "SyntaxError"
        ELSE IF a.err # "" THEN a.err
        ELSE IF b.err # "" THEN b.err
        ELSE IF a.ty # b.ty THEN "TypeError"
        ELSE IF a.ty = "str" THEN "F"
        ELSE IF toks[2].s = ">" THEN (IF a.n > b.n THEN "T" ELSE "F")
        ELSE (IF a.n < b.n THEN "T" ELSE "F")

\* Lines 116-121: the outcome of one rule on one transaction.
\*   "violated" : eval returned a false value (line 117 true, 118-119 run)
\*   "passed"   : eval returned a true value
\*   "error"    : format or eval raised; the handler of line 120 logged it
EvalRule(rule, tx) ==
  LET f == PyFormat(rule.rule_check, tx)
      r == IF f.err # "" THEN f.err ELSE PyEval(f.toks)
  IN  IF r = "F" THEN "violated" ELSE IF r = "T" THEN "passed" ELSE "error"

\* ------------------------------------------------------------ request data
Dates == {"2024-01-15"}
Descriptions == {"rent"}
Amounts == {JNum(500), JStr("1500.0"), JStr("abc"), JNull}
RuleDescriptions == {"d1", "d2"}
RuleChecks == {AmountGt1000, FooGt10, DescGt10}

AuditData == [date : Dates, description : Descriptions, amount : Amounts]
RuleData == [rule_description : RuleDescriptions, rule_check : RuleChecks]

\* Text returned by the chat completion (line 157).
LlmTexts == {"report text"}

\* ------------------------------------------------------------------ state
VARIABLES
  rule_container,         \* items of the ComplianceRules container, in storage order
  generations,            \* history: every value rule_container has had
  transaction_container,  \* items of the Transactions container, in storage order
  nextId,                 \* number of uuid4() identifiers handed out so far
  pc,                     \* pc[a]: position of worker a inside audit_transaction
  request,                \* request[a]: request.json of the request worker a serves or served last
  transaction,            \* transaction[a]: the local dict of audit_transaction
  rules,                  \* rules[a]: the local list of check_compliance (line 111)
  idx,                    \* idx[a]: position of the for loop of line 114 in rules[a]
  compliance_issues,      \* compliance_issues[a]: the local list of line 112
  checked,                \* checked[a]: ids of the rules the loop of line 114 has taken, in order
  writes,                 \* writes[a]: upsert_item calls made for the request
  response,               \* response[a]: what the request returned
  update,                 \* response of the last update_compliance request
  report                  \* state of generate_report: position, digest, response

vars == <<rule_container, generations, transaction_container, nextId, pc, request, transaction,
          rules, idx, compliance_issues, checked, writes, response, update, report>>

auditVars == <<pc, request, transaction, rules, idx, compliance_issues, checked,
               writes, response>>

NoTransaction == [id |-> 0, date |-> "", description |-> "", amount |-> NaN,
                  is_compliant |-> TRUE, compliance_issues |-> <<>>]
NoResponse == [status |-> 0, error |-> "", transaction_id |-> 0,
               compliance_issues |-> <<>>, is_compliant |-> TRUE]
NoData == [date |-> "", description |-> "", amount |-> JNull]

Init ==
  /\ rule_container = <<>>
  /\ generations = {<<>>}
  /\ transaction_container = <<>>
  /\ nextId = 0
  /\ pc = [a \in Auditors |-> "idle"]
  /\ request = [a \in Auditors |-> NoData]
  /\ transaction = [a \in Auditors |-> NoTransaction]
  /\ rules = [a \in Auditors |-> <<>>]
  /\ idx = [a \in Auditors |-> 0]
  /\ compliance_issues = [a \in Auditors |-> <<>>]
  /\ checked = [a \in Auditors |-> <<>>]
  /\ writes = [a \in Auditors |-> 0]
  /\ response = [a \in Auditors |-> NoResponse]
  /\ update = [status |-> 0, rule_id |-> 0]
  /\ report = [pc |-> "idle", read |-> <<>>, digest |-> <<>>, status |-> 0, text |-> ""]

\* container.upsert_item(item): replaces the item with the same id, or adds it.
Upsert(container, item) ==
  IF \E i \in 1..Len(container) : container[i].id = item.id
  THEN [i \in 1..Len(container) |->
          IF container[i].id = item.id THEN item ELSE container[i]]
  ELSE Append(container, item)

\* ------------------------------------------------------- audit_transaction
\* Lines 75-86: build the transaction dict; float() may raise.
ErrorResponse(status, text) == [NoResponse EXCEPT !.status = status, !.error = text]

AuditBegin(a, data) ==
  /\ pc[a] = "idle"
  /\ request' = [request EXCEPT ![a] = data]
  /\ rules' = [rules EXCEPT ![a] = <<>>]
  /\ idx' = [idx EXCEPT ![a] = 0]
  /\ compliance_issues' = [compliance_issues EXCEPT ![a] = <<>>]
  /\ checked' = [checked EXCEPT ![a] = <<>>]
  /\ writes' = [writes EXCEPT ![a] = 0]
  /\ LET f == PyFloat(data.amount) IN
     IF f.err = "ValueError" THEN
       /\ response' = [response EXCEPT ![a] = ErrorResponse(400, "Invalid amount format")]
       /\ transaction' = [transaction EXCEPT ![a] = NoTransaction]
       /\ UNCHANGED <<pc, nextId>>
     ELSE IF f.err # "" THEN
       \* not a ValueError: nothing catches it, the framework answers 500
       /\ response' = [response EXCEPT ![a] = ErrorResponse(500, "Internal Server Error")]
       /\ transaction' = [transaction EXCEPT ![a] = NoTransaction]
       /\ UNCHANGED <<pc, nextId>>
     ELSE
       /\ nextId < MaxIds
       /\ nextId' = nextId + 1
       /\ transaction' = [transaction EXCEPT ![a] =
            [id |-> nextId + 1, date |-> data.date, description |-> data.description,
             amount |-> f.v, is_compliant |-> TRUE, compliance_issues |-> <<>>]]
       /\ response' = [response EXCEPT ![a] = NoResponse]
       /\ pc' = [pc EXCEPT ![a] = "check"]
  /\ UNCHANGED <<rule_container, generations, transaction_container, update, report>>

\* Lines 105-112: float() of a float returns it; the rules are read into a list.
\* A read that misses the first item of the container.
ReadRulesPartial(a) == IF rule_container = <<>> THEN <<>> ELSE Tail(rule_container)

ReadRules(a) == rule_container

CheckBegin(a) ==
  /\ pc[a] = "check"
  /\ rules' = [rules EXCEPT ![a] = ReadRules(a)]
  /\ compliance_issues' = [compliance_issues EXCEPT ![a] = <<>>]
  /\ idx' = [idx EXCEPT ![a] = 1]
  /\ pc' = [pc EXCEPT ![a] = "loop"]
  /\ UNCHANGED <<rule_container, generations, transaction_container, nextId, request, transaction,
                 checked, writes, response, update, report>>

\* Lines 114-121: one iteration of the loop over the rules.
CurrentRule(a) == rules[a][idx[a]]
MoreRules(a) == idx[a] <= Len(rules[a])

\* A description already listed is not listed again.
AddIssueOnce(issues, rule) ==
  IF \E k \in 1..Len(issues) : issues[k] = rule.rule_description
  THEN issues ELSE Append(issues, rule.rule_description)

AddIssue(issues, rule) == Append(issues, rule.rule_description)

\* The test of line 117 without its "not".
IssuesAfterTruthy(issues, rule, tx) ==
  IF EvalRule(rule, tx) = "passed" THEN AddIssue(issues, rule) ELSE issues

IssuesAfter(issues, rule, tx) ==
  IF EvalRule(rule, tx) = "violated" THEN AddIssue(issues, rule) ELSE issues

\* An exception that leaves the loop instead of being caught inside it.
NextIdxAbort(a, outcome) == IF outcome = "error" THEN Len(rules[a]) + 1 ELSE idx[a] + 1

\* Position of the loop after the iteration on a rule with the given outcome.
NextIdx(a, outcome) == idx[a] + 1

CheckRule(a) ==
  /\ pc[a] = "loop"
  /\ MoreRules(a)
  /\ LET rule == CurrentRule(a) IN
     /\ checked' = [checked EXCEPT ![a] = Append(@, rule.id)]
     /\ compliance_issues' = [compliance_issues EXCEPT ![a] =
                                IssuesAfter(@, rule, transaction[a])]
     /\ idx' = [idx EXCEPT ![a] = NextIdx(a, EvalRule(rule, transaction[a]))]
  /\ UNCHANGED <<rule_container, generations, transaction_container, nextId, pc, request,
                 transaction, rules, writes, response, update, report>>

\* Lines 88-101: the verdict, the single upsert_item call and the response.
\* The value of line 82 left in place.
VerdictInitial(issues) == TRUE

Verdict(issues) == Len(issues) = 0

Audited(a) == [transaction[a] EXCEPT !.is_compliant = Verdict(compliance_issues[a]),
                                     !.compliance_issues = compliance_issues[a]]

\* The exception of upsert_item swallowed: the 201 response is sent anyway.
StoreFailedAsSuccess(a) ==
  [status |-> 201, error |-> "", transaction_id |-> Audited(a).id,
   compliance_issues |-> compliance_issues[a], is_compliant |-> Audited(a).is_compliant]

\* Lines 99-101.
StoreFailed(a) == ErrorResponse(500, "store error")

AuditStore(a, ok) ==
  /\ pc[a] = "loop"
  /\ ~MoreRules(a)
  /\ writes' = [writes EXCEPT ![a] = @ + 1]
  /\ IF ok THEN
       /\ transaction_container' = Upsert(transaction_container, Audited(a))
       /\ response' = [response EXCEPT ![a] =
            [status |-> 201, error |-> "", transaction_id |-> Audited(a).id,
             compliance_issues |-> compliance_issues[a],
             is_compliant |-> Audited(a).is_compliant]]
     ELSE
       /\ response' = [response EXCEPT ![a] = StoreFailed(a)]
       /\ UNCHANGED transaction_container
  \* the handler returns: its locals are gone
  /\ pc' = [pc EXCEPT ![a] = "idle"]
  /\ transaction' = [transaction EXCEPT ![a] = NoTransaction]
  /\ rules' = [rules EXCEPT ![a] = <<>>]
  /\ idx' = [idx EXCEPT ![a] = 0]
  /\ compliance_issues' = [compliance_issues EXCEPT ![a] = <<>>]
  /\ checked' = [checked EXCEPT ![a] = <<>>]
  /\ UNCHANGED <<rule_container, generations, nextId, request, update, report>>

\* ------------------------------------------------------- update_compliance
\* Lines 163-175: the rule is stored as submitted.
NewRule(data) == [id |-> nextId + 1, rule_description |-> data.rule_description,
                  rule_check |-> data.rule_check]

UpdateCompliance(data, ok) ==
  /\ nextId < MaxIds
  /\ nextId' = nextId + 1
  /\ IF ok THEN
       /\ rule_container' = Upsert(rule_container, NewRule(data))
       /\ update' = [status |-> 201, rule_id |-> NewRule(data).id]
     ELSE
       /\ update' = [status |-> 500, rule_id |-> 0]
       /\ UNCHANGED rule_container
  /\ generations' = generations \cup {rule_container'}
  /\ UNCHANGED <<transaction_container, auditVars, report>>

\* --------------------------------------------------------- generate_report
Sentinel == "No non-compliant transactions found."

\* The filter of line 128 with its test inverted.
NonCompliantInverted(ts) == SelectSeq(ts, LAMBDA t : t.is_compliant)

\* The filter of line 128 left out.
NonCompliantAll(ts) == ts

\* Line 128.
NonCompliant(ts) == SelectSeq(ts, LAMBDA t : ~ t.is_compliant)

\* Line 135: what one line of the prompt carries.
Detail(t) == [id |-> t.id, date |-> t.date, description |-> t.description,
              amount |-> PyStr(t.amount), issues |-> t.compliance_issues]

\* Lines 134-137.
DetailedTransactions(ts) == [i \in 1..Len(ts) |-> Detail(ts[i])]

\* Lines 127-150: read, filter, answer or build the prompt.
ReportBegin ==
  /\ report.pc = "idle"
  /\ LET ts == transaction_container
         bad == NonCompliant(ts)
     IN  IF bad = <<>> THEN
           report' = [report EXCEPT !.status = 200, !.text = Sentinel]
         ELSE
           report' = [report EXCEPT !.pc = "chat", !.read = ts,
                                       !.digest = DetailedTransactions(bad),
                                       !.status = 0, !.text = ""]
  /\ UNCHANGED <<rule_container, generations, transaction_container, nextId, auditVars, update>>

\* Lines 152-159: the chat completion call and the response.
ReportChat(ok, text) ==
  /\ report.pc = "chat"
  /\ report' = [report EXCEPT !.pc = "idle",
                              !.read = <<>>, !.digest = <<>>,
                              !.status = IF ok THEN 200 ELSE 500,
                              !.text = IF ok THEN text ELSE ""]
  /\ UNCHANGED <<rule_container, generations, transaction_container, nextId, auditVars, update>>

\* ------------------------------------------------------------------- spec
Next ==
  \/ \E a \in Auditors, data \in AuditData : AuditBegin(a, data)
  \/ \E a \in Auditors : CheckBegin(a)
  \/ \E a \in Auditors : CheckRule(a)
  \/ \E a \in Auditors, ok \in BOOLEAN : AuditStore(a, ok)
  \/ \E data \in RuleData, ok \in BOOLEAN : UpdateCompliance(data, ok)
  \/ ReportBegin
  \/ \E ok \in BOOLEAN, text \in LlmTexts : ReportChat(ok, text)

Spec == Init /\ [][Next]_vars

\* ----------------------------------------------------------------- claims
Ids(rs) == [i \in 1..Len(rs) |-> rs[i].id]
IsPrefix(s, t) == Len(s) <= Len(t) /\ \A i \in 1..Len(s) : s[i] = t[i]
Checking(a) == pc[a] = "loop"
Evaluated(a) == pc[a] = "loop" /\ ~ MoreRules(a)
Taken(a) == SubSeq(rules[a], 1, idx[a] - 1)

\* C1: every stored transaction, and every 201 response, has is_compliant
\* true exactly when its compliance_issues is empty.
C1_VerdictMatchesIssues ==
  /\ \A i \in 1..Len(transaction_container) :
       transaction_container[i].is_compliant
         <=> (transaction_container[i].compliance_issues = <<>>)
  /\ \A a \in Auditors :
       response[a].status = 201 =>
         (response[a].is_compliant <=> (response[a].compliance_issues = <<>>))

C1_Witness ==
  \E i, j \in 1..Len(transaction_container) :
    /\ transaction_container[i].is_compliant
    /\ ~ transaction_container[j].is_compliant
    /\ transaction_container[j].compliance_issues # <<>>

\* C2: a request whose amount does not parse to a number has ended with the
\* validation error (400, "Invalid amount format"), without reading or
\* evaluating a rule and without a write to the transaction store.
C2_UnparsableAmountIsValidationError ==
  \A a \in Auditors :
    (request[a] # NoData /\ PyFloat(request[a].amount).err # "") =>
      /\ pc[a] = "idle"
      /\ response[a] = ErrorResponse(400, "Invalid amount format")
      /\ idx[a] = 0 /\ checked[a] = <<>> /\ writes[a] = 0

\* C3: an invalid rule text (here foo > 10, an unknown field) never becomes
\* part of the stored rule set.
C3_InvalidRuleNeverStored ==
  \A i \in 1..Len(rule_container) : rule_container[i].rule_check # FooGt10

\* check_compliance as a function of the rule list, for reference.
RECURSIVE IssuesOver(_, _, _)
IssuesOver(issues, rs, tx) ==
  IF rs = <<>> THEN issues
  ELSE IssuesOver(IF EvalRule(Head(rs), tx) = "violated"
                  THEN Append(issues, Head(rs).rule_description) ELSE issues,
                  Tail(rs), tx)

WithoutErrors(rs, tx) == SelectSeq(rs, LAMBDA r : EvalRule(r, tx) # "error")

\* C4: a rule whose evaluation raises does not stop the loop: every rule of
\* the list is taken in turn, and the issues collected are those the list
\* without the erroring rules would give.
C4_ErrorIsolated ==
  \A a \in Auditors :
    Checking(a) =>
      /\ checked[a] = Ids(Taken(a))
      /\ compliance_issues[a] =
           IssuesOver(<<>>, WithoutErrors(Taken(a), transaction[a]), transaction[a])

C4_Witness ==
  \E a \in Auditors :
    /\ Evaluated(a)
    /\ Len(rules[a]) = 2
    /\ EvalRule(rules[a][1], transaction[a]) = "error"
    /\ EvalRule(rules[a][2], transaction[a]) = "violated"
    /\ compliance_issues[a] = <<rules[a][2].rule_description>>

\* C5: after the loop, compliance_issues is the descriptions of the violated
\* rules, one entry per violated rule, in the order of the rule list.
C5_IssuesInRuleOrder ==
  \A a \in Auditors :
    Evaluated(a) =>
      LET violated == SelectSeq(rules[a],
                        LAMBDA r : EvalRule(r, transaction[a]) = "violated")
      IN  compliance_issues[a] =
            [k \in 1..Len(violated) |-> violated[k].rule_description]

C5_Witness ==
  \E a \in Auditors :
    /\ Evaluated(a)
    /\ Len(compliance_issues[a]) = 2
    /\ compliance_issues[a][1] = compliance_issues[a][2]
    /\ rules[a][1].id # rules[a][2].id

\* The formatted expression of the rule evaluates to a false value.
EvaluatesFalse(rule, tx) ==
  /\ PyFormat(rule.rule_check, tx).err = ""
  /\ PyEval(PyFormat(rule.rule_check, tx).toks) = "F"

\* C6: the issues are the descriptions of exactly the rules whose expression
\* evaluated to false; amount > 1000 is false on 500.0 and true on 1500.0.
C6_FlaggedIffFalse ==
  \A a \in Auditors :
    Checking(a) =>
      LET tx == transaction[a]
          taken == 1..(idx[a] - 1)
          false == {i \in taken : EvaluatesFalse(rules[a][i], tx)}
      IN  /\ Len(compliance_issues[a]) = Cardinality(false)
          /\ \A k \in 1..Len(compliance_issues[a]) :
               \E i \in false : compliance_issues[a][k] = rules[a][i].rule_description
          /\ \A i \in taken :
               rules[a][i].rule_check = AmountGt1000 =>
                 /\ tx.amount = Fin(1500) => i \notin false
                 /\ tx.amount = Fin(500) => i \in false

C6_Witness ==
  \E a \in Auditors :
    /\ Evaluated(a)
    /\ Len(rules[a]) = 1
    /\ rules[a][1].rule_check = AmountGt1000
    /\ transaction[a].amount = Fin(500)
    /\ compliance_issues[a] = <<rules[a][1].rule_description>>

AllCompliant(ts) == \A i \in 1..Len(ts) : ts[i].is_compliant

\* C8: generate_report answers with the sentinel, building no digest and not
\* going on to the chat completion, exactly when every transaction it read
\* is compliant; otherwise it goes on to the chat completion.
C8_SentinelIffAllCompliant ==
  [][(report.pc = "idle" /\ report' # report) =>
       IF AllCompliant(transaction_container)
       THEN /\ report'.pc = "idle"
            /\ report'.status = 200 /\ report'.text = Sentinel
            /\ report'.digest = <<>>
       ELSE /\ report'.pc = "chat"
            /\ report'.text # Sentinel
            /\ report'.digest # <<>>]_vars

C8_Witness ==
  /\ report.pc = "idle"
  /\ report.status = 200 /\ report.text = Sentinel
  /\ transaction_container # <<>>
  /\ AllCompliant(transaction_container)

\* C9: the digest holds one entry for each non-compliant transaction read,
\* with its id, date, description, amount and issues, in the order read,
\* and nothing else.
C9_DigestIsNonCompliantInOrder ==
  report.pc = "chat" =>
    LET read == report.read
        bad == {i \in 1..Len(read) : ~ read[i].is_compliant}
    IN  /\ IsPrefix(read, transaction_container)
        /\ bad # {}
        /\ Len(report.digest) = Cardinality(bad)
        /\ \A i \in bad :
             LET k == Cardinality({j \in bad : j < i}) + 1
             IN  /\ report.digest[k].id = read[i].id
                 /\ report.digest[k].date = read[i].date
                 /\ report.digest[k].description = read[i].description
                 /\ report.digest[k].amount = PyStr(read[i].amount)
                 /\ report.digest[k].issues = read[i].compliance_issues

C9_Witness ==
  /\ report.pc = "chat"
  /\ Len(report.digest) >= 1
  /\ Len(report.read) > Len(report.digest)
  /\ ~ report.read[Len(report.read)].is_compliant

\* C10: a request makes at most one upsert_item call; a 201 response is sent
\* only for a transaction that is in the store with the id, issues and
\* verdict of the response; a write that failed ends in an error response.
C10_StoreFailureSurfaced ==
  \A a \in Auditors :
    /\ writes[a] <= 1
    /\ response[a].status = 201 =>
         /\ writes[a] = 1
         /\ \E i \in 1..Len(transaction_container) :
              /\ transaction_container[i].id = response[a].transaction_id
              /\ transaction_container[i].compliance_issues = response[a].compliance_issues
              /\ transaction_container[i].is_compliant = response[a].is_compliant
    /\ (pc[a] = "idle" /\ writes[a] = 1 /\ response[a].status # 201) =>
         (response[a].status = 500 /\ response[a].error # "")

C10_Witness ==
  \E a \in Auditors :
    /\ pc[a] = "idle"
    /\ writes[a] = 1
    /\ response[a].status = 500
    /\ transaction_container = <<>>

====
